---- MODULE Spec2Model ----
(***************************************************************************)
(* RedisContainer (src/src/redis.ts) and CloudflareSocketBridge             *)
(* (src/src/socket-bridge.ts) as a state machine.                           *)
(*                                                                          *)
(* A caller is one invocation of RedisContainer.get() on the Durable        *)
(* Object: it runs init() and then reads the client accessor. An await is   *)
(* a suspension point, so the steps of different invocations interleave     *)
(* at the awaits of the code and nowhere else.                              *)
(*                                                                          *)
(* The container runtime (ctx.container), the Cloudflare socket and the     *)
(* node-redis client are collaborators outside the repository: what they    *)
(* resolve, reject or call is chosen nondeterministically.                  *)
(*                                                                          *)
(* Spec       the container object with its callers and their bridges       *)
(* TimedSpec  Spec with every timer of init() firing                        *)
(* BridgeSpec one bridge, built on a socket that has not opened yet, in     *)
(*            the hands of an arbitrary consumer and transport              *)
(* RpcSpec    the RedisRpcClient of a held client and the facade get()      *)
(*            returns for it                                                *)
(***************************************************************************)
EXTENDS Integers, Sequences, FiniteSets

\* ---- program constants --------------------------------------------------
MAX_RETRIES == 5
RETRY_DELAY_MS == 1000

\* ---- bounds of the model ------------------------------------------------
MaxCalls == 2        \* get() invocations (Spec)
MaxOps == 1          \* _write()/_destroy() calls by the redis client (Spec)
MaxBridgeOps == 4    \* _write()/_destroy() calls by the consumer (BridgeSpec)
MaxRpcCalls == 2     \* calls made through the facade or the stub (RpcSpec)
MaxArgs == 2         \* arguments of one call (RpcSpec)
MaxChunks == 2       \* chunks the transport hands to the read loop (BridgeSpec)

Callers == 1..MaxCalls
NoSocket == 0
NoClient == 0

VARIABLES
  hasContainer,    \* ctx.container is defined (fixed for the deployment)
  startRequested,  \* ctx.container.start() has been called
  client,          \* this._client: NoClient, or the socket the client is built on
  socks,           \* the cfSockets the program refers to, each with its bridge
  pc,              \* per caller: position in get()/init()
  i,               \* per caller: the loop variable of init()
  cur,             \* per caller: cfSocket/nodeSocket of the running attempt
  clientError,     \* per caller: the local clientError of the running attempt
  result,          \* per caller: what get() obtained from the accessor
  fails,           \* per caller (history): failed attempts of this init() call
  delays,          \* per caller (history): retry delays slept in this init() call
  outcome,         \* per caller (history): how this init() call ended
  lastOk,          \* (history) socket of the latest successful attempt
  budget,          \* _write()/_destroy() calls the collaborators may still make
  rpc              \* the RedisRpcClient of a held client and what its callers saw

mgrVars == <<hasContainer, startRequested, client>>
callVars == <<pc, i, cur, clientError, result>>
histVars == <<fails, delays, outcome, lastOk>>
vars == <<mgrVars, socks, callVars, histVars, budget, rpc>>

Sockets == DOMAIN socks

\* A cfSocket as connect() returns it; no bridge wraps it yet. Besides the
\* fields of the bridge the record keeps what the bridge did to its
\* collaborators and its consumer: events emitted, chunks pushed, callbacks
\* invoked.
NewSocket ==
  [opened |-> "pending", closes |-> 0,
   bridge |-> FALSE, setup |-> "none",
   isConnected |-> FALSE, isDestroyed |-> FALSE, hasWriteError |-> FALSE,
   reader |-> FALSE, writer |-> FALSE,
   cancels |-> 0, wcloses |-> 0, inflight |-> 0, tw |-> 0,
   hasClient |-> FALSE,
   connects |-> 0, setupErrs |-> 0, readErrs |-> 0, writeErrs |-> 0,
   loop |-> "off", arrived |-> <<>>, pushed |-> <<>>, ends |-> 0,
   wseq |-> 0, wlog |-> <<>>, wcb |-> <<>>,
   destroys |-> 0, dcb |-> <<>>, logged |-> 0]

\* new CloudflareSocketBridge(cfSocket): the field initialisers, then
\* setupSocket() runs up to its await of cfSocket.opened.
Constructed(r) ==
  [r EXCEPT !.bridge = TRUE, !.setup = "awaiting",
            !.isConnected = FALSE, !.isDestroyed = FALSE,
            !.hasWriteError = FALSE, !.reader = FALSE, !.writer = FALSE]

\* setupSocket() marking the bridge connected before its await has settled.
SetupResumedConnectedFirst(r) ==
  IF r.opened = "resolved"
    THEN [r EXCEPT !.setup = "done", !.isConnected = TRUE,
                   !.reader = TRUE, !.writer = TRUE, !.connects = @ + 1,
                   !.loop = IF r.isDestroyed THEN @ ELSE "reading"]
    ELSE [r EXCEPT !.setup = "failed", !.isConnected = TRUE,
                   !.setupErrs = @ + 1]

\* startReading() up to its first await (lines 76-90), called with the
\* reader just taken: on a destroyed bridge it returns at once, otherwise
\* the loop is entered and reader.read() awaited.
ReadingStarted(r) ==
  IF ~r.reader \/ r.isDestroyed THEN r
  ELSE [r EXCEPT !.loop = IF r.isConnected /\ ~r.isDestroyed
                            THEN "reading" ELSE "over"]

\* setupSocket() after its await (lines 47-73). Resolved: connected, reader
\* and writer taken, startReading() called, 'connect' emitted; isDestroyed
\* is not consulted. Rejected: 'error' emitted.
SetupResumed(r) ==
  IF r.opened = "resolved"
    THEN ReadingStarted([r EXCEPT !.setup = "done", !.isConnected = TRUE,
                                  !.reader = TRUE, !.writer = TRUE,
                                  !.connects = @ + 1])
    ELSE [r EXCEPT !.setup = "failed", !.setupErrs = @ + 1]

\* readyState without the latched write error.
ReadyStateNoLatch(r) ==
  IF r.isDestroyed THEN "closed"
  ELSE IF r.isConnected THEN "open"
  ELSE "opening"

\* get readyState()
ReadyState(r) ==
  IF r.isDestroyed \/ r.hasWriteError THEN "closed"
  ELSE IF r.isConnected THEN "open"
  ELSE "opening"

\* get connecting()
Connecting(r) == ~r.isConnected /\ ~r.isDestroyed

\* hasErrors()
HasErrors(r) == r.hasWriteError \/ r.isDestroyed

\* The socket of record r holds no connection: close() was called on it or
\* it never opened.
Released(r) == r.closes > 0 \/ r.opened = "rejected"

\* The sockets the program still refers to once it drops socket s.
Without(s) == [x \in Sockets \ {s} |-> socks[x]]

\* The RedisRpcClient before any call is made on it.
RpcIdle ==
  [n |-> 0, via |-> "none", req |-> <<>>, received |-> <<>>,
   threw |-> FALSE, value |-> "none", log |-> <<>>]

Init ==
  /\ hasContainer \in BOOLEAN
  /\ startRequested = FALSE
  /\ client = NoClient
  /\ socks = <<>>
  /\ pc = [c \in Callers |-> "idle"]
  /\ i = [c \in Callers |-> 0]
  /\ cur = [c \in Callers |-> NoSocket]
  /\ clientError = [c \in Callers |-> FALSE]
  /\ result = [c \in Callers |-> [threw |-> FALSE, value |-> NoClient]]
  /\ fails = [c \in Callers |-> 0]
  /\ delays = [c \in Callers |-> 0]
  /\ outcome = [c \in Callers |-> "none"]
  /\ lastOk = NoSocket
  /\ budget = MaxOps
  /\ rpc = RpcIdle

\* ---- RedisContainer.init / get ------------------------------------------

\* The accessor without its check of _client.
ClientGetUnchecked == [threw |-> FALSE, value |-> client]

\* get client() (lines 77-83): throws when _client is unset, else returns it.
ClientGet ==
  IF client = NoClient THEN [threw |-> TRUE, value |-> NoClient]
  ELSE [threw |-> FALSE, value |-> client]

\* The socket connect() returns to an attempt of caller c. A caller refers
\* to one socket at a time, that of its running attempt or, after a
\* success, that of the client it stored, so the sockets in use are named
\* by their callers.
SocketOf(c) == c

\* The catch block with the retry bound off by one.
CatchOneMore(c, n) ==
  /\ fails' = [fails EXCEPT ![c] = @ + 1]
  /\ socks' = Without(cur[c])
  /\ cur' = [cur EXCEPT ![c] = NoSocket]
  /\ clientError' = [clientError EXCEPT ![c] = FALSE]
  /\ IF n < MAX_RETRIES
       THEN /\ pc' = [pc EXCEPT ![c] = "sleep"]
            /\ i' = [i EXCEPT ![c] = n]
            /\ UNCHANGED outcome
       ELSE /\ pc' = [pc EXCEPT ![c] = "returned"]
            /\ i' = [i EXCEPT ![c] = n + 1]
            /\ outcome' = [outcome EXCEPT ![c] = "exhausted"]

\* The catch block of attempt n (lines 182-190): with attempts left the
\* call sleeps RETRY_DELAY_MS, otherwise the loop ends and init() returns.
\* Nothing the attempt built is closed: cfSocket and nodeSocket go out of
\* scope as they are.
Catch(c, n) ==
  /\ fails' = [fails EXCEPT ![c] = @ + 1]
  /\ socks' = Without(cur[c])
  /\ cur' = [cur EXCEPT ![c] = NoSocket]
  /\ clientError' = [clientError EXCEPT ![c] = FALSE]
  /\ IF n < MAX_RETRIES - 1
       THEN /\ pc' = [pc EXCEPT ![c] = "sleep"]
            /\ i' = [i EXCEPT ![c] = n]
            /\ UNCHANGED outcome
       ELSE /\ pc' = [pc EXCEPT ![c] = "returned"]
            /\ i' = [i EXCEPT ![c] = n + 1]
            /\ outcome' = [outcome EXCEPT ![c] = "exhausted"]

\* Attempt n up to its first await, lines 92-104: request the start of a
\* container that is not running (running is read from the runtime),
\* connect, throw when no socket came back, else await cfSocket.opened.
Attempt(c, n) ==
  /\ \E isRunning \in BOOLEAN :
       startRequested' = (startRequested \/ (hasContainer /\ ~isRunning))
  /\ IF hasContainer
       THEN /\ socks' = [x \in Sockets \cup {SocketOf(c)} |->
                           IF x = SocketOf(c) THEN NewSocket ELSE socks[x]]
            /\ cur' = [cur EXCEPT ![c] = SocketOf(c)]
            /\ pc' = [pc EXCEPT ![c] = "await_opened"]
            /\ i' = [i EXCEPT ![c] = n]
            /\ UNCHANGED <<clientError, fails, outcome>>
       ELSE Catch(c, n)

\* init() without the early return of lines 86-88.
InitEnterUnguarded(c) ==
  /\ pc[c] = "idle"
  /\ \A d \in Callers : d < c => pc[d] # "idle"
  /\ Attempt(c, 0)
  /\ UNCHANGED <<hasContainer, client, result, delays, lastOk, budget, rpc>>

\* get() calls init(), lines 85-90: with a client stored init() returns at
\* once, otherwise the retry loop starts at i = 0. Invocations are numbered
\* in the order they arrive.
InitEnter(c) ==
  /\ pc[c] = "idle"
  /\ \A d \in Callers : d < c => pc[d] # "idle"
  /\ IF client # NoClient
       THEN /\ pc' = [pc EXCEPT ![c] = "returned"]
            /\ outcome' = [outcome EXCEPT ![c] = "already"]
            /\ UNCHANGED <<startRequested, socks, i, cur, clientError, fails>>
       ELSE Attempt(c, 0)
  /\ UNCHANGED <<hasContainer, client, result, delays, lastOk, budget, rpc>>

\* cfSocket.opened settles and line 104 resumes; no timer covers this await.
\* Rejected: the catch block. Resolved: lines 107-170. The bridge is built
\* on a socket that has already opened, so setupSocket() passes its await
\* and emits 'connect' in the same turn of the job queue, before the 2 s
\* timer of line 115 can fire; the promise of line 111 resolves, the redis
\* client is created on the bridge, the error listeners are attached and
\* the race of client.connect() against the 5 s timer is awaited.
AwaitOpened(c) ==
  /\ pc[c] = "await_opened"
  /\ \E o \in {"resolved", "rejected"} :
       IF o = "resolved"
         THEN /\ socks' = [socks EXCEPT ![cur[c]] =
                             [SetupResumed(Constructed([@ EXCEPT !.opened = o]))
                                EXCEPT !.hasClient = TRUE]]
              /\ clientError' = [clientError EXCEPT ![c] = FALSE]
              /\ pc' = [pc EXCEPT ![c] = "await_handshake"]
              /\ UNCHANGED <<i, cur, fails, outcome>>
         ELSE Catch(c, i[c])
  /\ UNCHANGED <<mgrVars, result, delays, lastOk, budget, rpc>>

\* Lines 177-181: the client is stored over whatever _client held, and
\* init() returns.
StoreClient(c) ==
  /\ client' = cur[c]
  /\ lastOk' = cur[c]
  /\ socks' = Without(client)
  /\ pc' = [pc EXCEPT ![c] = "returned"]
  /\ outcome' = [outcome EXCEPT ![c] = "connected"]
  /\ cur' = [cur EXCEPT ![c] = NoSocket]
  /\ UNCHANGED <<i, clientError, fails>>

\* client.connect() resolves (line 147) after a handshake over a bridge
\* that is open, and line 170 resumes: with no error recorded (line 173)
\* the client is stored, otherwise the catch block.
ConnectResolves(c) ==
  /\ pc[c] = "await_handshake"
  /\ ReadyState(socks[cur[c]]) = "open"
  /\ IF ~clientError[c]
       THEN StoreClient(c)
       ELSE /\ Catch(c, i[c])
            /\ UNCHANGED <<client, lastOk>>
  /\ UNCHANGED <<hasContainer, startRequested, result, delays, budget, rpc>>

\* client.connect() rejects (line 147): the catch block.
ConnectRejects(c) ==
  /\ pc[c] = "await_handshake"
  /\ Catch(c, i[c])
  /\ UNCHANGED <<mgrVars, result, delays, lastOk, budget, rpc>>

\* The redis client emits 'error' (lines 132-135).
ClientErrorEvent(c) ==
  /\ pc[c] = "await_handshake"
  /\ ~clientError[c]
  /\ clientError' = [clientError EXCEPT ![c] = TRUE]
  /\ UNCHANGED <<mgrVars, socks, pc, i, cur, result, histVars, budget, rpc>>

\* The 100 ms interval (lines 150-162) rejects the race on a recorded
\* client error or when the bridge reports errors: the catch block.
ErrorCheck(c) ==
  /\ pc[c] = "await_handshake"
  /\ clientError[c] \/ HasErrors(socks[cur[c]])
  /\ Catch(c, i[c])
  /\ UNCHANGED <<mgrVars, result, delays, lastOk, budget, rpc>>

\* Lines 165-168: the 5 s timer rejects the race: the catch block.
HandshakeTimeout(c) ==
  /\ pc[c] = "await_handshake"
  /\ Catch(c, i[c])
  /\ UNCHANGED <<mgrVars, result, delays, lastOk, budget, rpc>>

\* The loop going on with no delay awaited.
SleepSkipped(c) ==
  /\ pc[c] = "sleep"
  /\ Attempt(c, i[c] + 1)
  /\ UNCHANGED <<hasContainer, client, result, delays, lastOk, budget, rpc>>

\* Line 186: the retry delay elapses and the loop goes on with attempt
\* i + 1.
Sleep(c) ==
  /\ pc[c] = "sleep"
  /\ delays' = [delays EXCEPT ![c] = @ + 1]
  /\ Attempt(c, i[c] + 1)
  /\ UNCHANGED <<hasContainer, client, result, lastOk, budget, rpc>>

\* get(), line 197: init() has returned, its locals are gone, and the
\* accessor is read.
Accessor(c) ==
  /\ pc[c] = "returned"
  /\ result' = [result EXCEPT ![c] = ClientGet]
  /\ pc' = [pc EXCEPT ![c] = "done"]
  /\ i' = [i EXCEPT ![c] = 0]
  /\ fails' = [fails EXCEPT ![c] = 0]
  /\ delays' = [delays EXCEPT ![c] = 0]
  /\ UNCHANGED <<mgrVars, socks, cur, clientError, outcome, lastOk, budget, rpc>>

\* ---- CloudflareSocketBridge ---------------------------------------------

\* cfSocket.opened resolves.
OpenedResolves(s) ==
  /\ socks[s].opened = "pending"
  /\ socks' = [socks EXCEPT ![s].opened = "resolved"]
  /\ UNCHANGED <<mgrVars, callVars, histVars, budget, rpc>>

\* cfSocket.opened rejects.
OpenedRejects(s) ==
  /\ socks[s].opened = "pending"
  /\ socks' = [socks EXCEPT ![s].opened = "rejected"]
  /\ UNCHANGED <<mgrVars, callVars, histVars, budget, rpc>>

\* setupSocket() resumes once cfSocket.opened has settled (lines 47-73).
SetupResume(s) ==
  /\ socks[s].setup = "awaiting"
  /\ socks[s].opened # "pending"
  /\ socks' = [socks EXCEPT ![s] = SetupResumed(@)]
  /\ UNCHANGED <<mgrVars, callVars, histVars, budget, rpc>>

\* emit('error') on bridge s reaches the listener of lines 138-141 of the
\* attempt that runs on it.
ClientErrorOnError(s) ==
  [c \in Callers |->
     IF cur[c] = s /\ pc[c] = "await_handshake" THEN TRUE ELSE clientError[c]]

\* _write() without its guard.
WriteIssuedAlways(r) == TRUE

\* _write(), lines 133-138: without a writer, or destroyed, the callback
\* fails at once; hasWriteError is not consulted.
WriteIssued(r) == ~(~r.writer \/ r.isDestroyed)

\* _write(), lines 125-144: the chunk goes to writer.write() unless the
\* call was refused.
Write(s) ==
  /\ socks[s].hasClient
  /\ budget > 0
  /\ budget' = budget - 1
  /\ socks' = IF WriteIssued(socks[s])
                THEN [socks EXCEPT ![s].tw = @ + 1, ![s].inflight = @ + 1,
                                   ![s].wseq = @ + 1,
                                   ![s].wlog = Append(@, socks[s].wseq + 1)]
                ELSE [socks EXCEPT ![s].wseq = @ + 1,
                                   ![s].wcb = Append(@, <<socks[s].wseq + 1,
                                                          "not connected">>)]
  /\ UNCHANGED <<mgrVars, callVars, histVars, rpc>>

\* The write the writer settles next: it settles them in the order it got
\* them.
Settling(r) == r.wlog[Len(r.wlog) - r.inflight + 1]

\* writer.write() resolves (lines 145-148): callback().
WriteDone(s) ==
  /\ socks[s].inflight > 0
  /\ socks' = [socks EXCEPT ![s].inflight = @ - 1,
                            ![s].wcb = Append(@, <<Settling(socks[s]), "ok">>)]
  /\ UNCHANGED <<mgrVars, callVars, histVars, budget, rpc>>

\* The catch of _write() failing the callback without latching the error.
WriteFailedNoLatch(s) ==
  /\ socks[s].inflight > 0
  /\ socks' = [socks EXCEPT ![s].inflight = @ - 1,
                            ![s].writeErrs = @ + 1,
                            ![s].wcb = Append(@, <<socks[s].wlog[Len(socks[s].wlog)
                                                     - socks[s].inflight + 1], "error">>)]
  /\ clientError' = clientError
  /\ UNCHANGED <<mgrVars, pc, i, cur, result, histVars, budget, rpc>>

\* writer.write() rejects (lines 149-158): the error is latched, 'error'
\* is emitted and the callback fails.
WriteFailed(s) ==
  /\ socks[s].inflight > 0
  /\ socks' = [socks EXCEPT ![s].inflight = @ - 1, ![s].hasWriteError = TRUE,
                            ![s].writeErrs = @ + 1,
                            ![s].wcb = Append(@, <<Settling(socks[s]), "error">>)]
  /\ clientError' = ClientErrorOnError(s)
  /\ UNCHANGED <<mgrVars, pc, i, cur, result, histVars, budget, rpc>>

\* _destroy(), lines 173-216, on record r: flags set, a held reader is
\* cancelled and a held writer closed, each then dropped; cfSocket, which is
\* never dropped, is closed on every invocation.
Destroyed(r) ==
  [r EXCEPT !.isDestroyed = TRUE, !.isConnected = FALSE,
            !.cancels = IF r.reader THEN @ + 1 ELSE @,
            !.reader = FALSE,
            !.wcloses = IF r.writer THEN @ + 1 ELSE @,
            !.writer = FALSE,
            !.closes = @ + 1]

\* The errors _destroy() may be handed (null or an Error), and the closing
\* calls of a collaborator that may fail.
DestroyErrors == {"null", "Error"}
Closings == {"reader.cancel", "writer.close", "cfSocket.close"}

\* The closing calls _destroy() makes on record r.
ClosingsOf(r) ==
  (IF r.reader THEN {"reader.cancel"} ELSE {})
    \cup (IF r.writer THEN {"writer.close"} ELSE {})
    \cup {"cfSocket.close"}

\* _destroy() handing a failure of cfSocket.close() to its callback.
DestroyCalledBackSecondary(r, error, failing) ==
  [Destroyed(r) EXCEPT
     !.destroys = @ + 1,
     !.logged = @ + Cardinality(failing \cap ClosingsOf(r)),
     !.dcb = Append(@, [given |-> error,
                        got |-> IF "cfSocket.close" \in failing
                                  THEN "close failed" ELSE error])]

\* _destroy(error, callback), lines 173-216, with the closing calls in
\* failing rejecting or throwing: each failure is logged by the catch next
\* to the call (lines 185-187, 194-196, 207-209) and callback(error) is the
\* last statement.
DestroyCalledBack(r, error, failing) ==
  [Destroyed(r) EXCEPT
     !.destroys = @ + 1,
     !.logged = @ + Cardinality(failing \cap ClosingsOf(r)),
     !.dcb = Append(@, [given |-> error, got |-> error])]

\* _destroy(error, callback) is invoked on bridge s, with error drawn from
\* errors and the failing closing calls from closings.
DestroyWith(s, errors, closings) ==
  /\ socks[s].hasClient
  /\ budget > 0
  /\ budget' = budget - 1
  /\ \E error \in errors, failing \in SUBSET closings :
       socks' = [socks EXCEPT ![s] = DestroyCalledBack(@, error, failing)]
  /\ UNCHANGED <<mgrVars, callVars, histVars, rpc>>

\* The redis client of an attempt destroys its socket: no error is handed
\* over and the transport closes cleanly.
ClientDestroy(s) == DestroyWith(s, {"null"}, {})

\* A consumer destroys the bridge with any error, on a transport whose
\* closing calls may fail.
Destroy(s) == DestroyWith(s, DestroyErrors, Closings)

\* The chunks reader.read() may yield, and the value pushed for one (lines
\* 101-103): a Buffer is pushed as it is, any other Uint8Array is copied
\* into a Buffer of the same bytes.
Chunks ==
  {[type |-> "Uint8Array", bytes |-> <<1>>],
   [type |-> "Uint8Array", bytes |-> <<>>],
   [type |-> "Buffer", bytes |-> <<2, 1>>]}
\* Buffer.from() given the ArrayBuffer under the chunk rather than the
\* chunk: the bytes around the chunk come along.
ToBufferWhole(value) == [type |-> "Buffer", bytes |-> value.bytes \o <<0>>]

ToBuffer(value) ==
  IF value.type = "Buffer" THEN value
  ELSE [type |-> "Buffer", bytes |-> value.bytes]

\* The loop condition of line 90 once a chunk has been handled.
LoopAgain(r) == IF r.isConnected /\ ~r.isDestroyed THEN "reading" ELSE "over"

\* reader.read() resolves with a chunk (lines 91, 99-104): the chunk is
\* pushed and the loop condition read again.
ReadChunk(s) ==
  /\ socks[s].loop = "reading"
  /\ Len(socks[s].arrived) < MaxChunks
  /\ \E value \in Chunks :
       socks' = [socks EXCEPT ![s].arrived = Append(@, value),
                              ![s].pushed = Append(@, ToBuffer(value)),
                              ![s].loop = LoopAgain(socks[s])]
  /\ UNCHANGED <<mgrVars, callVars, histVars, budget, rpc>>

\* reader.read() resolves with done (lines 93-97): push(null) and the loop
\* is left.
ReadEnd(s) ==
  /\ socks[s].loop = "reading"
  /\ socks' = [socks EXCEPT ![s].ends = @ + 1, ![s].loop = "over"]
  /\ UNCHANGED <<mgrVars, callVars, histVars, budget, rpc>>

\* The read loop emitting 'error' whatever isDestroyed holds.
ReadErrorEmits(r) == 1

\* 'error' events the catch of the read loop emits (lines 113-115).
ReadErrorEmitted(r) == IF ~r.isDestroyed THEN 1 ELSE 0

\* reader.read() rejects (lines 107-116): the loop is left and 'error' is
\* emitted unless the bridge is destroyed.
ReadError(s) ==
  /\ socks[s].loop = "reading"
  /\ socks' = [socks EXCEPT ![s].readErrs = @ + ReadErrorEmitted(socks[s]),
                            ![s].loop = "failed"]
  /\ clientError' = IF ReadErrorEmitted(socks[s]) = 1
                      THEN ClientErrorOnError(s) ELSE clientError
  /\ UNCHANGED <<mgrVars, pc, i, cur, result, histVars, budget, rpc>>

\* ---- RedisRpcClient / createRedisClientWrapper --------------------------

\* Member names a caller may ask the facade for, and the argument lists of a
\* call. The held redis client has the methods get and set and the
\* non-function property isOpen; it has no member nope, then or toJSON, and
\* inherits toString from Object.prototype.
Names == {"get", "set", "isOpen", "nope", "then", "toJSON", "toString"}
ArgValues == {"a", "b"}
ArgLists == UNION {[1..n -> ArgValues] : n \in 0..MaxArgs}

\* typeof this.redisClient[functionName] (line 20).
ClientMember(name) ==
  IF name \in {"get", "set", "toString"} THEN "function"
  ELSE IF name = "isOpen" THEN "boolean"
  ELSE "undefined"

\* What method name of the held client returns for args: the client is a
\* collaborator, its result is kept as the call that produced it.
Apply(name, args) == [by |-> name, on |-> args]

\* The member names the proxy does not forward (lines 39-46); symbols are
\* handled like them.
Reserved ==
  {"then", "catch", "finally", "constructor", "valueOf", "toString", "toJSON"}

\* typeof (target as any)[prop] for the empty baseObject of lines 31-34,
\* which has the members of Object.prototype only.
BaseMember(prop) ==
  IF prop \in {"constructor", "valueOf", "toString"} THEN "function"
  ELSE "undefined"

\* The proxy's get trap (lines 37-59): a reserved name reads the base
\* object, any other string yields a forwarding function.
ProxyGet(prop) ==
  IF prop \in Reserved
    THEN [kind |-> "target", member |-> BaseMember(prop)]
    ELSE [kind |-> "forward", member |-> "function"]

\* The forwarding function passing the member name after the arguments.
StubCallArgsNameLast(prop, args) == args \o <<prop>>

\* Line 54: rpcStub.call(prop, ...args), the argument list call() receives.
StubCallArgs(prop, args) == <<prop>> \o args

\* call() without its typeof test.
CallUnchecked(list) ==
  [threw |-> FALSE, value |-> Apply(Head(list), Tail(list)),
   invoked |-> <<[name |-> Head(list), args |-> Tail(list)]>>]

\* RedisRpcClient.call(functionName, ...args), lines 16-25, on the argument
\* list it receives: a function member is applied to args on the client
\* and its result returned; otherwise an Error naming functionName is
\* thrown.
Call(list) ==
  IF ClientMember(Head(list)) = "function"
    THEN [threw |-> FALSE, value |-> Apply(Head(list), Tail(list)),
          invoked |-> <<[name |-> Head(list), args |-> Tail(list)]>>]
    ELSE [threw |-> TRUE, value |-> Head(list), invoked |-> <<>>]

\* A caller evaluates facade.m(...args): the get trap, then the call of
\* what it returned. A forwarding function relays to call(); a member of
\* the base object runs locally; undefined is not callable.
FacadeInvoke(m, args) ==
  /\ rpc.n < MaxRpcCalls
  /\ rpc' =
       IF ProxyGet(m).kind = "forward"
         THEN [n |-> rpc.n + 1, via |-> "forward", req |-> <<m>> \o args,
               received |-> StubCallArgs(m, args),
               threw |-> Call(StubCallArgs(m, args)).threw,
               value |-> Call(StubCallArgs(m, args)).value,
               log |-> rpc.log \o Call(StubCallArgs(m, args)).invoked]
         ELSE [n |-> rpc.n + 1, via |-> "target", req |-> <<m>> \o args,
               received |-> <<>>,
               threw |-> (ProxyGet(m).member # "function"),
               value |-> "local",
               log |-> rpc.log]
  /\ UNCHANGED <<mgrVars, socks, callVars, histVars, budget>>

\* A caller invokes the entry point on the stub itself: call(name, ...args).
ServerCall(name, args) ==
  /\ rpc.n < MaxRpcCalls
  /\ rpc' = [n |-> rpc.n + 1, via |-> "stub", req |-> <<name>> \o args,
             received |-> <<name>> \o args,
             threw |-> Call(<<name>> \o args).threw,
             value |-> Call(<<name>> \o args).value,
             log |-> rpc.log \o Call(<<name>> \o args).invoked]
  /\ UNCHANGED <<mgrVars, socks, callVars, histVars, budget>>

\* ---- specifications -----------------------------------------------------

Next ==
  \/ \E c \in Callers : InitEnter(c)
  \/ \E c \in Callers : AwaitOpened(c)
  \/ \E c \in Callers : ConnectResolves(c)
  \/ \E c \in Callers : ConnectRejects(c)
  \/ \E c \in Callers : ClientErrorEvent(c)
  \/ \E c \in Callers : ErrorCheck(c)
  \/ \E c \in Callers : HandshakeTimeout(c)
  \/ \E c \in Callers : Sleep(c)
  \/ \E c \in Callers : Accessor(c)
  \/ \E s \in Sockets : Write(s)
  \/ \E s \in Sockets : WriteDone(s)
  \/ \E s \in Sockets : WriteFailed(s)
  \/ \E s \in Sockets : ClientDestroy(s)

Spec == Init /\ [][Next]_vars

\* The timers init() arms fire: the error-check interval and the handshake
\* timeout of an attempt, and the retry delay. Nothing is assumed of the
\* container: a promise it owns may stay pending for ever.
TimersFire ==
  \A c \in Callers :
    /\ WF_vars(ErrorCheck(c))
    /\ WF_vars(HandshakeTimeout(c))
    /\ WF_vars(Sleep(c))

TimedSpec == Spec /\ TimersFire

\* A consumer has built a bridge on a socket that has not opened yet and
\* holds it; no get() is under way.
BridgeInit ==
  /\ hasContainer = TRUE
  /\ startRequested = TRUE
  /\ client = NoClient
  /\ socks = [x \in {1} |-> [Constructed(NewSocket) EXCEPT !.hasClient = TRUE]]
  /\ pc = [c \in Callers |-> "off"]
  /\ i = [c \in Callers |-> 0]
  /\ cur = [c \in Callers |-> NoSocket]
  /\ clientError = [c \in Callers |-> FALSE]
  /\ result = [c \in Callers |-> [threw |-> FALSE, value |-> NoClient]]
  /\ fails = [c \in Callers |-> 0]
  /\ delays = [c \in Callers |-> 0]
  /\ outcome = [c \in Callers |-> "none"]
  /\ lastOk = NoSocket
  /\ budget = MaxBridgeOps
  /\ rpc = RpcIdle

BridgeNext ==
  \/ \E s \in Sockets : OpenedResolves(s)
  \/ \E s \in Sockets : OpenedRejects(s)
  \/ \E s \in Sockets : SetupResume(s)
  \/ \E s \in Sockets : ReadChunk(s)
  \/ \E s \in Sockets : ReadEnd(s)
  \/ \E s \in Sockets : ReadError(s)
  \/ \E s \in Sockets : Write(s)
  \/ \E s \in Sockets : WriteDone(s)
  \/ \E s \in Sockets : WriteFailed(s)
  \/ \E s \in Sockets : Destroy(s)

BridgeSpec == BridgeInit /\ [][BridgeNext]_vars

\* A client is held and wrapped: get() has returned the facade of line 197.
RpcInit ==
  /\ hasContainer = TRUE
  /\ startRequested = TRUE
  /\ client = SocketOf(1)
  /\ socks = [x \in {SocketOf(1)} |->
               [SetupResumed(Constructed([NewSocket EXCEPT !.opened = "resolved"]))
                  EXCEPT !.hasClient = TRUE]]
  /\ pc = [c \in Callers |-> "off"]
  /\ i = [c \in Callers |-> 0]
  /\ cur = [c \in Callers |-> NoSocket]
  /\ clientError = [c \in Callers |-> FALSE]
  /\ result = [c \in Callers |-> [threw |-> FALSE, value |-> SocketOf(1)]]
  /\ fails = [c \in Callers |-> 0]
  /\ delays = [c \in Callers |-> 0]
  /\ outcome = [c \in Callers |-> "none"]
  /\ lastOk = SocketOf(1)
  /\ budget = 0
  /\ rpc = RpcIdle

RpcNext ==
  \/ \E m \in Names, args \in ArgLists : FacadeInvoke(m, args)
  \/ \E m \in Names, args \in ArgLists : ServerCall(m, args)

RpcSpec == RpcInit /\ [][RpcNext]_vars


\* ---- properties ---------------------------------------------------------

InAttempt(c) == pc[c] \in {"await_opened", "await_handshake", "sleep"}
Exhausted == \E c \in Callers : outcome[c] = "exhausted"

\* A lower bound of the time init() of caller c has taken so far, and the
\* attempts it has started once it is inside the retry loop.
Elapsed(c) == delays[c] * RETRY_DELAY_MS
Attempts(c) == i[c] + 1

\* C1: init() calls that overlap while no client is set run one attempt
\* sequence between them: never are two callers inside the retry loop, and
\* never do two attempts hold a socket at once.
C1_SingleFlight ==
  \A c, d \in Callers :
    (InAttempt(c) /\ InAttempt(d)) \/ (cur[c] # NoSocket /\ cur[d] # NoSocket)
      => c = d

C3_DelayPerFailure ==
  \A c \in Callers :
    /\ pc[c] \in {"await_opened", "await_handshake"} =>
         i[c] = fails[c] /\ delays[c] = fails[c]
    /\ pc[c] = "sleep" => i[c] = fails[c] - 1 /\ delays[c] = fails[c] - 1
    /\ pc[c] = "returned" /\ outcome[c] = "connected" =>
         /\ fails[c] < MAX_RETRIES
         /\ Attempts(c) = fails[c] + 1
         /\ delays[c] = fails[c]
         /\ Elapsed(c) >= fails[c] * RETRY_DELAY_MS
         /\ client # NoClient

C3_Witness ==
  \E c \in Callers :
    pc[c] = "returned" /\ outcome[c] = "connected" /\ fails[c] = 2

\* C4: an attempt that fails releases what it built: when the catch block
\* drops an attempt that had built its bridge, the bridge has been destroyed
\* and the socket closed. (An attempt dropped at line 104 holds a socket
\* that never opened.)
C4_ReleasedOnFailure ==
  [][\A c \in Callers :
       (pc[c] = "await_handshake" /\ cur'[c] = NoSocket /\ client' # cur[c])
         => Released(socks[cur[c]]) /\ socks[cur[c]].isDestroyed]_vars

\* C5: every stage of an attempt is bounded by a timer, so that with the
\* timers firing every init() call that entered the retry loop returns.
C5_InitReturns ==
  \A c \in Callers : InAttempt(c) ~> pc[c] \in {"returned", "done"}

\* C6: once a write error is latched the bridge reports 'closed' and no
\* further write reaches the transport writer.
C6_NoWriteAfterLatch ==
  [][\A s \in Sockets :
       socks[s].hasWriteError =>
         /\ ReadyState(socks'[s]) = "closed"
         /\ socks'[s].tw = socks[s].tw]_vars

\* C7: the stored client is never one whose bridge is closed (write error
\* latched, or destroyed).
C7_HeldClientAlive ==
  client # NoClient => ReadyState(socks[client]) # "closed"

\* C8: init() entered with a client stored returns at once: no start
\* request, no socket, no delay, no failure, and the stored client as it was.
C8_InitIdempotent ==
  [][\A c \in Callers :
       (pc[c] = "idle" /\ pc'[c] # "idle" /\ client # NoClient) =>
         /\ pc'[c] = "returned"
         /\ client' = client
         /\ socks' = socks
         /\ startRequested' = startRequested
         /\ cur'[c] = NoSocket
         /\ delays'[c] = 0 /\ fails'[c] = 0]_vars

C8_Witness ==
  \E c \in Callers : pc[c] = "returned" /\ outcome[c] = "already"

\* C9: a second _destroy() has no further effect: no flag changes, the
\* reader is not cancelled again, the writer not closed again, the transport
\* not closed again.
C9_DestroyIdempotent ==
  [][\A s \in Sockets :
       (socks[s].isDestroyed /\ socks'[s].destroys = socks[s].destroys + 1) =>
         /\ socks'[s].isDestroyed /\ ~socks'[s].isConnected
         /\ socks'[s].cancels = socks[s].cancels
         /\ socks'[s].wcloses = socks[s].wcloses
         /\ socks'[s].closes = socks[s].closes]_vars

\* C10: the accessor throws as long as no attempt has succeeded, and from
\* then on returns the client the latest successful attempt stored.
C10_Accessor ==
  /\ lastOk = NoSocket => ClientGet.threw
  /\ lastOk # NoSocket => ~ClientGet.threw /\ ClientGet.value = lastOk
  /\ \A c \in Callers :
       pc[c] = "done" /\ outcome[c] = "connected" =>
         ~result[c].threw /\ result[c].value # NoClient

C10_Witness ==
  \E c, d \in Callers :
    /\ pc[c] = "done" /\ result[c].threw
    /\ pc[d] = "done" /\ ~result[d].threw /\ result[d].value = lastOk

\* C11: a call of a non-reserved member m through the facade reaches the
\* entry point as exactly (m, ...args); when m is a method of the held
\* client, it is invoked once with exactly args and the facade returns its
\* result as it is.
C11_FacadeForwards ==
  (rpc.via # "none" /\ Head(rpc.req) \notin Reserved) =>
    /\ rpc.via \in {"forward", "stub"}
    /\ rpc.received = rpc.req
    /\ ClientMember(Head(rpc.req)) = "function" =>
         /\ ~rpc.threw
         /\ rpc.log # <<>>
         /\ rpc.log[Len(rpc.log)] =
              [name |-> Head(rpc.req), args |-> Tail(rpc.req)]
         /\ rpc.value = Apply(Head(rpc.req), Tail(rpc.req))

C11_Witness ==
  /\ rpc.via = "forward"
  /\ rpc.req = <<"set", "a", "b">>
  /\ rpc.value = Apply("set", <<"a", "b">>)
  /\ Len(rpc.log) = 2

\* C12: call(methodName, ...args) with methodName not a function member of
\* the held client throws an error naming methodName and invokes nothing on
\* the client.
C12_NoSuchMethod ==
  [][(rpc'.n = rpc.n + 1 /\ rpc'.received # <<>>
        /\ ClientMember(Head(rpc'.received)) # "function") =>
       /\ rpc'.threw
       /\ rpc'.value = Head(rpc'.received)
       /\ rpc'.log = rpc.log]_vars

C12_Witness ==
  /\ rpc.via = "stub"
  /\ Head(rpc.req) = "isOpen"
  /\ rpc.threw /\ rpc.value = "isOpen"
  /\ rpc.log # <<>>

\* C13: when setupSocket() resumes on a resolved `opened` it takes reader
\* and writer, sets isConnected, emits 'connect' (once over the life of the
\* bridge) and, on a bridge that has not been destroyed, enters the read
\* loop; on a rejected `opened` it emits 'error' and the bridge never emits
\* 'connect' and is never connected.
C13_Open ==
  [][\A s \in Sockets :
       /\ (socks[s].setup = "awaiting" /\ socks'[s].setup # "awaiting") =>
            IF socks[s].opened = "resolved"
              THEN /\ socks'[s].setup = "done"
                   /\ socks'[s].isConnected
                   /\ socks'[s].reader /\ socks'[s].writer
                   /\ socks'[s].connects = 1
                   /\ socks'[s].setupErrs = 0
                   /\ ~socks[s].isDestroyed => socks'[s].loop = "reading"
              ELSE /\ socks'[s].setup = "failed"
                   /\ socks'[s].setupErrs = socks[s].setupErrs + 1
                   /\ socks'[s].connects = 0
       /\ socks'[s].connects <= 1
       /\ socks'[s].setup = "awaiting" => socks'[s].connects = 0
       /\ socks'[s].opened = "rejected" =>
            socks'[s].connects = 0 /\ ~socks'[s].isConnected]_vars

C13_Witness ==
  \E s \in Sockets :
    /\ socks[s].setup = "done"
    /\ socks[s].connects = 1
    /\ socks[s].isConnected /\ socks[s].reader /\ socks[s].writer
    /\ socks[s].loop = "reading"

\* C14: the chunks pushed are the chunks read, one push per chunk, in the
\* order of arrival and with the bytes of the chunk; push(null) is made at
\* most once and no chunk is pushed after it.
C14_ReadLoopDelivers ==
  [][\A s \in Sockets :
       /\ Len(socks'[s].pushed) = Len(socks'[s].arrived)
       /\ \A k \in 1..Len(socks'[s].arrived) :
            /\ socks'[s].pushed[k].bytes = socks'[s].arrived[k].bytes
            /\ socks'[s].pushed[k].type = "Buffer"
       /\ socks'[s].ends <= 1
       /\ socks[s].ends = 1 =>
            socks'[s].pushed = socks[s].pushed /\ socks'[s].ends = 1]_vars

C14_Witness ==
  \E s \in Sockets :
    /\ Len(socks[s].arrived) = 2
    /\ socks[s].arrived[1].type = "Uint8Array"
    /\ socks[s].arrived[1] # socks[s].arrived[2]
    /\ socks[s].ends = 1

\* C15: the read loop emits 'error' at most once, and not at all for a read
\* error it observes on a destroyed bridge.
C15_ReadErrorOnce ==
  [][\A s \in Sockets :
       /\ socks'[s].readErrs <= 1
       /\ socks'[s].readErrs > socks[s].readErrs => ~socks[s].isDestroyed
       /\ (socks[s].loop = "reading" /\ socks'[s].loop = "failed"
             /\ socks[s].isDestroyed) =>
            /\ socks'[s].readErrs = socks[s].readErrs
            /\ socks'[s].setupErrs = socks[s].setupErrs
            /\ socks'[s].writeErrs = socks[s].writeErrs]_vars

C15_Witness ==
  \E s \in Sockets :
    socks[s].loop = "failed" /\ socks[s].isDestroyed /\ socks[s].readErrs = 0

\* The writes of record r the writer has settled.
SettledWrites(r) == {r.wlog[k] : k \in 1..(Len(r.wlog) - r.inflight)}

\* C16: a write handed to the writer gets its callback once, when the
\* writer has settled it and not before: without error when the writer
\* resolved, with the error when it rejected, and then the error is latched
\* for good and 'error' emitted; the writer gets the writes in the order
\* they were submitted.
C16_WriteCallback ==
  [][\A s \in Sockets :
       /\ \A j, k \in 1..Len(socks'[s].wcb) :
            socks'[s].wcb[j][1] = socks'[s].wcb[k][1] => j = k
       /\ {socks'[s].wcb[k][1] : k \in {j \in 1..Len(socks'[s].wcb) :
              socks'[s].wcb[j][2] \in {"ok", "error"}}} = SettledWrites(socks'[s])
       /\ \A j, k \in 1..Len(socks'[s].wlog) :
            j < k => socks'[s].wlog[j] < socks'[s].wlog[k]
       /\ Cardinality({k \in 1..Len(socks'[s].wcb) : socks'[s].wcb[k][2] = "error"})
            = socks'[s].writeErrs
       /\ socks'[s].writeErrs > 0 => socks'[s].hasWriteError
       /\ socks[s].hasWriteError => socks'[s].hasWriteError]_vars

C16_Witness ==
  \E s \in Sockets :
    /\ socks[s].wcb = <<<<1, "ok">>, <<2, "error">>>>
    /\ socks[s].hasWriteError
    /\ socks[s].writeErrs = 1
    /\ ~socks[s].isDestroyed

\* C17: a _write() on a bridge that is destroyed or holds no writer fails
\* its callback within the call, hands nothing to the writer and changes no
\* flag.
C17_WriteRefused ==
  [][\A s \in Sockets :
       (socks'[s].wseq = socks[s].wseq + 1
          /\ (~socks[s].writer \/ socks[s].isDestroyed)) =>
         /\ socks'[s].wcb = Append(socks[s].wcb, <<socks'[s].wseq, "not connected">>)
         /\ socks'[s].wlog = socks[s].wlog
         /\ socks'[s].tw = socks[s].tw
         /\ socks'[s].inflight = socks[s].inflight
         /\ socks'[s].isConnected = socks[s].isConnected
         /\ socks'[s].isDestroyed = socks[s].isDestroyed
         /\ socks'[s].hasWriteError = socks[s].hasWriteError]_vars

C17_Witness ==
  \E s \in Sockets :
    /\ socks[s].wcb = <<<<1, "not connected">>, <<2, "ok">>, <<3, "not connected">>>>
    /\ socks[s].isDestroyed

\* C18: every _destroy() calls its callback once, with the error it was
\* given, whichever closing calls fail; the flags are set, reader and writer
\* are let go and every closing call is made.
C18_DestroyCompletes ==
  [][\A s \in Sockets :
       /\ Len(socks'[s].dcb) = socks'[s].destroys
       /\ socks'[s].destroys = socks[s].destroys + 1 =>
            /\ socks'[s].dcb[Len(socks'[s].dcb)].got
                 = socks'[s].dcb[Len(socks'[s].dcb)].given
            /\ socks'[s].isDestroyed /\ ~socks'[s].isConnected
            /\ ~socks'[s].reader /\ ~socks'[s].writer
            /\ socks'[s].cancels = socks[s].cancels + (IF socks[s].reader THEN 1 ELSE 0)
            /\ socks'[s].wcloses = socks[s].wcloses + (IF socks[s].writer THEN 1 ELSE 0)
            /\ socks'[s].closes = socks[s].closes + 1]_vars

C18_Witness ==
  \E s \in Sockets :
    /\ socks[s].destroys = 1
    /\ socks[s].dcb = <<[given |-> "Error", got |-> "Error"]>>
    /\ socks[s].logged = 3
    /\ socks[s].cancels = 1 /\ socks[s].wcloses = 1 /\ socks[s].closes = 1

\* C19: readyState is 'closed' when the bridge is destroyed or has latched
\* a write error, else 'open' when connected, else 'opening'; connecting
\* holds exactly when the bridge is neither connected nor destroyed.
C19_ReadyState ==
  \A s \in Sockets :
    /\ (socks[s].isDestroyed \/ socks[s].hasWriteError) =>
         ReadyState(socks[s]) = "closed"
    /\ (~socks[s].isDestroyed /\ ~socks[s].hasWriteError /\ socks[s].isConnected) =>
         ReadyState(socks[s]) = "open"
    /\ (~socks[s].isDestroyed /\ ~socks[s].hasWriteError /\ ~socks[s].isConnected) =>
         ReadyState(socks[s]) = "opening"
    /\ Connecting(socks[s]) <=> (~socks[s].isConnected /\ ~socks[s].isDestroyed)

C19_Witness ==
  \E s \in Sockets :
    /\ socks[s].hasWriteError /\ socks[s].isConnected /\ ~socks[s].isDestroyed
    /\ ReadyState(socks[s]) = "closed"
    /\ ~Connecting(socks[s])

\* C20: a destroyed bridge is not connected and holds neither reader nor
\* writer, however _destroy() and the settling of `opened` interleave.
C20_DestroyedStaysClosed ==
  \A s \in Sockets :
    socks[s].isDestroyed =>
      ~socks[s].isConnected /\ ~socks[s].reader /\ ~socks[s].writer

\* C21: once _destroy() has run the read loop pushes nothing more, neither a
\* chunk nor the end of the stream, whether the read was pending or had
\* resolved when _destroy() ran.
C21_NoDeliveryAfterDestroy ==
  [][\A s \in Sockets :
       socks[s].isDestroyed =>
         /\ socks'[s].pushed = socks[s].pushed
         /\ socks'[s].ends = socks[s].ends]_vars

====
